---- MODULE Spec2Model ----
(***************************************************************************)
(* Spaced-repetition core of the study/chat application: the scoped card   *)
(* store (IndexedDB store leitner_cards_v2), the SM-2 scheduler, the       *)
(* due-state classifier, the review queue and the add / rate handlers.     *)
(*                                                                         *)
(* Time is an integer number of ticks, DayLen ticks to a calendar day.     *)
(* Ease factors are kept in hundredths (2.5 is 250, the floor 1.3 is 130). *)
(* A missing / null / undefined value is NULL for a string, NoNum for a    *)
(* number or a date, NoCard for a card.                                    *)
(***************************************************************************)
EXTENDS Integers, Sequences, FiniteSets, TLC

----------------------------------------------------------------------------
(* Bounds of the model *)

MaxTime == 2
MaxCards == 1
MaxInFlight == 1
MaxRates == 2
MaxInterval == 12
MaxChain == 8
MaxClock == 6
DeckCards == 2
DeckRates == 2
DeckTime == 1
ScopesCards == 2
ScopesRates == 1
CallsInFlight == 2
RaceInFlight == 3

(* Program constants *)

DayLen == 2
DefaultEase == 250
MinEase == 130
Version == 6
LegacyVersion == 3

NULL == "null"
NoNum == -1
NoCard == [id |-> NULL]

----------------------------------------------------------------------------
(* Words are sequences of characters; normalizeWord trims surrounding      *)
(* whitespace and lower-cases.  Join is the string a word makes inside a   *)
(* template literal.                                                       *)

Lower(ch) == CASE ch = "A" -> "a"
               [] ch = "B" -> "b"
               [] OTHER -> ch

IsSpace(ch) == ch = " "

RECURSIVE TrimLeft(_)
TrimLeft(s) == IF s = <<>> THEN s
               ELSE IF IsSpace(Head(s)) THEN TrimLeft(Tail(s)) ELSE s

RECURSIVE TrimRight(_)
TrimRight(s) == IF s = <<>> THEN s
                ELSE IF IsSpace(s[Len(s)]) THEN TrimRight(SubSeq(s, 1, Len(s) - 1)) ELSE s

RECURSIVE Join(_)
Join(s) == IF s = <<>> THEN "" ELSE Head(s) \o Join(Tail(s))

(* trim without toLowerCase *)
trimWord(word) == TrimRight(TrimLeft(word))

normalizeWord(word) == [i \in 1..Len(TrimRight(TrimLeft(word))) |-> Lower(TrimRight(TrimLeft(word))[i])]

RawWords == { <<"a">>, <<" ", "A", " ">>, <<" ">> }

----------------------------------------------------------------------------
(* Scopes *)

GlobalScope == [type |-> "global", id |-> "all"]

GlobalOnly == [type |-> "global", id |-> NULL]
ChatA == [type |-> "chat", id |-> "1"]
ChatB == [type |-> "chat", id |-> "2"]
DocA == [type |-> "document", id |-> "1"]

Scopes == { GlobalOnly, ChatA, ChatB, DocA }

getScopeKey(scope) ==
    IF scope.type = NULL THEN "global:all"
    ELSE IF scope.type = "global" THEN "global:all"
    ELSE scope.type \o ":" \o (IF scope.id = NULL THEN "all" ELSE scope.id)

getLeitnerCardId(word, scope) == getScopeKey(scope) \o ":" \o Join(normalizeWord(word))

----------------------------------------------------------------------------
(* Dates *)

Midnight(t) == t - (t % DayLen)

AddDays(t, days) == t + days * DayLen

Max(a, b) == IF a >= b THEN a ELSE b

(* Math.round of num / den for non-negative num: halves round up *)
RoundDiv(num, den) == (2 * num + den) \div (2 * den)

----------------------------------------------------------------------------
(* SM-2 scheduler *)

OrDefault(v, d) == IF v = NoNum \/ v = 0 THEN d ELSE v

(* 0.1 - (5 - q) * (0.08 + (5 - q) * 0.02), in hundredths *)
EaseDelta(quality) == 10 - (5 - quality) * (8 + (5 - quality) * 2)

(* the scheduler without the floor of the ease factor *)
calculateSM2NoFloor(card, quality) ==
    LET repetitions == OrDefault(card.repetitions, 0)
        interval == OrDefault(card.interval, 0)
        easeFactor == OrDefault(card.easeFactor, DefaultEase)
    IN  IF quality < 3
        THEN [repetitions |-> 0,
              interval |-> IF repetitions = 0 THEN 0 ELSE 1,
              easeFactor |-> easeFactor - 20]
        ELSE LET newEaseFactor == easeFactor + EaseDelta(quality)
             IN  IF repetitions = 0
                 THEN IF quality = 5
                      THEN [repetitions |-> 2, interval |-> 4, easeFactor |-> newEaseFactor]
                      ELSE IF quality = 2
                      THEN [repetitions |-> 0, interval |-> 0, easeFactor |-> newEaseFactor]
                      ELSE [repetitions |-> 1, interval |-> 1, easeFactor |-> newEaseFactor]
                 ELSE IF repetitions = 1
                 THEN [repetitions |-> 2,
                       interval |-> IF quality = 5
                                    THEN RoundDiv(interval * newEaseFactor * 13, 1000)
                                    ELSE IF quality = 2
                                    THEN Max(2, RoundDiv(interval * 12, 10))
                                    ELSE 6,
                       easeFactor |-> newEaseFactor]
                 ELSE [repetitions |-> repetitions + 1,
                       interval |-> IF quality = 5
                                    THEN RoundDiv(interval * newEaseFactor * 13, 1000)
                                    ELSE IF quality = 2
                                    THEN Max(RoundDiv(interval * 12, 10), interval + 1)
                                    ELSE RoundDiv(interval * newEaseFactor, 100),
                       easeFactor |-> newEaseFactor]

(* the scheduler without the shortcut of a first Easy: the textbook SM-2 *)
calculateSM2Classic(card, quality) ==
    LET repetitions == OrDefault(card.repetitions, 0)
        interval == OrDefault(card.interval, 0)
        easeFactor == OrDefault(card.easeFactor, DefaultEase)
    IN  IF quality < 3
        THEN [repetitions |-> 0,
              interval |-> IF repetitions = 0 THEN 0 ELSE 1,
              easeFactor |-> Max(MinEase, easeFactor - 20)]
        ELSE LET newEaseFactor == Max(MinEase, easeFactor + EaseDelta(quality))
             IN  IF repetitions = 0
                 THEN [repetitions |-> 1, interval |-> 1, easeFactor |-> newEaseFactor]
                 ELSE IF repetitions = 1
                 THEN [repetitions |-> 2,
                       interval |-> IF quality = 5
                                    THEN RoundDiv(interval * newEaseFactor * 13, 1000)
                                    ELSE IF quality = 2
                                    THEN Max(2, RoundDiv(interval * 12, 10))
                                    ELSE 6,
                       easeFactor |-> newEaseFactor]
                 ELSE [repetitions |-> repetitions + 1,
                       interval |-> IF quality = 5
                                    THEN RoundDiv(interval * newEaseFactor * 13, 1000)
                                    ELSE IF quality = 2
                                    THEN Max(RoundDiv(interval * 12, 10), interval + 1)
                                    ELSE RoundDiv(interval * newEaseFactor, 100),
                       easeFactor |-> newEaseFactor]

(* the scheduler that shows every failed card again the same day *)
calculateSM2LapseToday(card, quality) ==
    LET repetitions == OrDefault(card.repetitions, 0)
        interval == OrDefault(card.interval, 0)
        easeFactor == OrDefault(card.easeFactor, DefaultEase)
    IN  IF quality < 3
        THEN [repetitions |-> 0,
              interval |-> 0,
              easeFactor |-> Max(MinEase, easeFactor - 20)]
        ELSE LET newEaseFactor == Max(MinEase, easeFactor + EaseDelta(quality))
             IN  IF repetitions = 0
                 THEN IF quality = 5
                      THEN [repetitions |-> 2, interval |-> 4, easeFactor |-> newEaseFactor]
                      ELSE IF quality = 2
                      THEN [repetitions |-> 0, interval |-> 0, easeFactor |-> newEaseFactor]
                      ELSE [repetitions |-> 1, interval |-> 1, easeFactor |-> newEaseFactor]
                 ELSE IF repetitions = 1
                 THEN [repetitions |-> 2,
                       interval |-> IF quality = 5
                                    THEN RoundDiv(interval * newEaseFactor * 13, 1000)
                                    ELSE IF quality = 2
                                    THEN Max(2, RoundDiv(interval * 12, 10))
                                    ELSE 6,
                       easeFactor |-> newEaseFactor]
                 ELSE [repetitions |-> repetitions + 1,
                       interval |-> IF quality = 5
                                    THEN RoundDiv(interval * newEaseFactor * 13, 1000)
                                    ELSE IF quality = 2
                                    THEN Max(RoundDiv(interval * 12, 10), interval + 1)
                                    ELSE RoundDiv(interval * newEaseFactor, 100),
                       easeFactor |-> newEaseFactor]

(* the scheduler without the bonus of the Easy button *)
calculateSM2NoBonus(card, quality) ==
    LET repetitions == OrDefault(card.repetitions, 0)
        interval == OrDefault(card.interval, 0)
        easeFactor == OrDefault(card.easeFactor, DefaultEase)
    IN  IF quality < 3
        THEN [repetitions |-> 0,
              interval |-> IF repetitions = 0 THEN 0 ELSE 1,
              easeFactor |-> Max(MinEase, easeFactor - 20)]
        ELSE LET newEaseFactor == Max(MinEase, easeFactor + EaseDelta(quality))
             IN  IF repetitions = 0
                 THEN IF quality = 5
                      THEN [repetitions |-> 2, interval |-> 4, easeFactor |-> newEaseFactor]
                      ELSE IF quality = 2
                      THEN [repetitions |-> 0, interval |-> 0, easeFactor |-> newEaseFactor]
                      ELSE [repetitions |-> 1, interval |-> 1, easeFactor |-> newEaseFactor]
                 ELSE IF repetitions = 1
                 THEN [repetitions |-> 2,
                       interval |-> IF quality = 5
                                    THEN RoundDiv(interval * newEaseFactor, 100)
                                    ELSE IF quality = 2
                                    THEN Max(2, RoundDiv(interval * 12, 10))
                                    ELSE 6,
                       easeFactor |-> newEaseFactor]
                 ELSE [repetitions |-> repetitions + 1,
                       interval |-> IF quality = 5
                                    THEN RoundDiv(interval * newEaseFactor, 100)
                                    ELSE IF quality = 2
                                    THEN Max(RoundDiv(interval * 12, 10), interval + 1)
                                    ELSE RoundDiv(interval * newEaseFactor, 100),
                       easeFactor |-> newEaseFactor]

calculateSM2(card, quality) ==
    LET repetitions == OrDefault(card.repetitions, 0)
        interval == OrDefault(card.interval, 0)
        easeFactor == OrDefault(card.easeFactor, DefaultEase)
    IN  IF quality < 3
        THEN [repetitions |-> 0,
              interval |-> IF repetitions = 0 THEN 0 ELSE 1,
              easeFactor |-> Max(MinEase, easeFactor - 20)]
        ELSE LET newEaseFactor == Max(MinEase, easeFactor + EaseDelta(quality))
             IN  IF repetitions = 0
                 THEN IF quality = 5
                      THEN [repetitions |-> 2, interval |-> 4, easeFactor |-> newEaseFactor]
                      ELSE IF quality = 2
                      THEN [repetitions |-> 0, interval |-> 0, easeFactor |-> newEaseFactor]
                      ELSE [repetitions |-> 1, interval |-> 1, easeFactor |-> newEaseFactor]
                 ELSE IF repetitions = 1
                 THEN [repetitions |-> 2,
                       interval |-> IF quality = 5
                                    THEN RoundDiv(interval * newEaseFactor * 13, 1000)
                                    ELSE IF quality = 2
                                    THEN Max(2, RoundDiv(interval * 12, 10))
                                    ELSE 6,
                       easeFactor |-> newEaseFactor]
                 ELSE [repetitions |-> repetitions + 1,
                       interval |-> IF quality = 5
                                    THEN RoundDiv(interval * newEaseFactor * 13, 1000)
                                    ELSE IF quality = 2
                                    THEN Max(RoundDiv(interval * 12, 10), interval + 1)
                                    ELSE RoundDiv(interval * newEaseFactor, 100),
                       easeFactor |-> newEaseFactor]

Ratings == 1..4

qualityMap(rating) == CASE rating = 1 -> 0
                        [] rating = 2 -> 2
                        [] rating = 3 -> 3
                        [] rating = 4 -> 5

(* the status that calls a card a review card after its first success *)
statusOfGraduated(repetitions) == IF repetitions = 0 THEN "learning" ELSE "review"

statusOf(repetitions) == IF repetitions = 0 THEN "learning"
                         ELSE IF repetitions < 2 THEN "learning"
                         ELSE "review"

(* the record with the next due date counted from the time of the rating, *)
(* not from its midnight                                                   *)
updatedCardFromNow(card, rating, t) ==
    LET sm2Result == calculateSM2(card, qualityMap(rating))
    IN  [card EXCEPT !.repetitions = sm2Result.repetitions,
                     !.interval = sm2Result.interval,
                     !.easeFactor = sm2Result.easeFactor,
                     !.dueDate = AddDays(t, sm2Result.interval),
                     !.lastReviewed = t,
                     !.status = statusOf(sm2Result.repetitions)]

(* the record rateCard hands to the store for the current card *)
updatedCard(card, rating, t) ==
    LET sm2Result == calculateSM2(card, qualityMap(rating))
    IN  [card EXCEPT !.repetitions = sm2Result.repetitions,
                     !.interval = sm2Result.interval,
                     !.easeFactor = sm2Result.easeFactor,
                     !.dueDate = AddDays(Midnight(t), sm2Result.interval),
                     !.lastReviewed = t,
                     !.status = statusOf(sm2Result.repetitions)]

----------------------------------------------------------------------------
(* Due-state classifier *)

(* the classifier without the fallback for a card that has no due date *)
evaluateCardDueStateNoFallback(card, t) ==
    IF card = NoCard \/ card.dueDate = NoNum THEN "none"
    ELSE LET due == card.dueDate
             isDue == due <= t
             overdue == isDue /\ t - due > DayLen
         IN  IF isDue THEN (IF overdue THEN "overdue" ELSE "due")
             ELSE IF card.repetitions = 0 THEN "new" ELSE "scheduled"

evaluateCardDueState(card, t) ==
    IF card = NoCard THEN "none"
    ELSE LET due == IF card.dueDate # NoNum THEN card.dueDate ELSE t
             isDue == due <= t
             overdue == isDue /\ t - due > DayLen
         IN  IF isDue THEN (IF overdue THEN "overdue" ELSE "due")
             ELSE IF card.repetitions = 0 THEN "new" ELSE "scheduled"

----------------------------------------------------------------------------
(* Cards *)

(* a new card that falls due a day after it is added *)
newCardDueTomorrow(word, scope, t) ==
    [id |-> getLeitnerCardId(word, scope),
     word |-> normalizeWord(word),
     scopeType |-> scope.type,
     scopeId |-> IF scope.id = NULL THEN "all" ELSE scope.id,
     scopeKey |-> getScopeKey(scope),
     createdAt |-> t,
     dueDate |-> AddDays(t, 1),
     repetitions |-> 0,
     interval |-> 0,
     easeFactor |-> DefaultEase,
     lastReviewed |-> NoNum,
     status |-> "new",
     chatId |-> NULL,
     migratedFromLegacy |-> FALSE]

newCard(word, scope, t) ==
    [id |-> getLeitnerCardId(word, scope),
     word |-> normalizeWord(word),
     scopeType |-> scope.type,
     scopeId |-> IF scope.id = NULL THEN "all" ELSE scope.id,
     scopeKey |-> getScopeKey(scope),
     createdAt |-> t,
     dueDate |-> t,
     repetitions |-> 0,
     interval |-> 0,
     easeFactor |-> DefaultEase,
     lastReviewed |-> NoNum,
     status |-> "new",
     chatId |-> NULL,
     migratedFromLegacy |-> FALSE]

(* Records of the legacy store leitner_cards (keyPath word), as the two    *)
(* older versions of addCurrentWordToLeitner wrote them: the first without *)
(* repetitions and lastReviewed, the second with them.                     *)
legacyCardV2(word, chatId, t) ==
    [word |-> word, chatId |-> chatId, createdAt |-> t, dueDate |-> t,
     repetitions |-> NoNum, interval |-> 0, easeFactor |-> DefaultEase,
     lastReviewed |-> NoNum, status |-> "new"]

legacyCardV3(word, chatId, t) ==
    [word |-> word, chatId |-> chatId, createdAt |-> t, dueDate |-> t,
     repetitions |-> 0, interval |-> 0, easeFactor |-> DefaultEase,
     lastReviewed |-> NoNum, status |-> "new"]

LegacyRecords == { legacyCardV2(<<"a">>, "1", 0), legacyCardV3(<<"b">>, "2", 0) }

(* the scoped record stamped with the time of the migration *)
migratedStampedNow(value, t) ==
    LET scopeType == IF value.chatId # NULL THEN "chat" ELSE "global"
        scopeId == IF value.chatId # NULL THEN value.chatId ELSE "all"
        scopeKey == scopeType \o ":" \o scopeId
    IN  [id |-> scopeKey \o ":" \o Join(value.word),
         word |-> value.word,
         scopeType |-> scopeType,
         scopeId |-> scopeId,
         scopeKey |-> scopeKey,
         createdAt |-> t,
         dueDate |-> value.dueDate,
         repetitions |-> value.repetitions,
         interval |-> value.interval,
         easeFactor |-> value.easeFactor,
         lastReviewed |-> value.lastReviewed,
         status |-> value.status,
         chatId |-> value.chatId,
         migratedFromLegacy |-> TRUE]

(* the scoped record kept under the key of the legacy store, the word *)
migratedByWord(value, t) ==
    LET scopeType == IF value.chatId # NULL THEN "chat" ELSE "global"
        scopeId == IF value.chatId # NULL THEN value.chatId ELSE "all"
        scopeKey == scopeType \o ":" \o scopeId
    IN  [id |-> Join(value.word),
         word |-> value.word,
         scopeType |-> scopeType,
         scopeId |-> scopeId,
         scopeKey |-> scopeKey,
         createdAt |-> IF value.createdAt # NoNum THEN value.createdAt ELSE t,
         dueDate |-> value.dueDate,
         repetitions |-> value.repetitions,
         interval |-> value.interval,
         easeFactor |-> value.easeFactor,
         lastReviewed |-> value.lastReviewed,
         status |-> value.status,
         chatId |-> value.chatId,
         migratedFromLegacy |-> TRUE]

(* onupgradeneeded: the scoped record written for one legacy record *)
migrated(value, t) ==
    LET scopeType == IF value.chatId # NULL THEN "chat" ELSE "global"
        scopeId == IF value.chatId # NULL THEN value.chatId ELSE "all"
        scopeKey == scopeType \o ":" \o scopeId
    IN  [id |-> scopeKey \o ":" \o Join(value.word),
         word |-> value.word,
         scopeType |-> scopeType,
         scopeId |-> scopeId,
         scopeKey |-> scopeKey,
         createdAt |-> IF value.createdAt # NoNum THEN value.createdAt ELSE t,
         dueDate |-> value.dueDate,
         repetitions |-> value.repetitions,
         interval |-> value.interval,
         easeFactor |-> value.easeFactor,
         lastReviewed |-> value.lastReviewed,
         status |-> value.status,
         chatId |-> value.chatId,
         migratedFromLegacy |-> TRUE]

(* a put that carries the schedule over to the cards of the same word *)
PutByWord(st, card) ==
    [k \in DOMAIN st \cup {card.id} |->
        IF k = card.id THEN card
        ELSE IF st[k].word = card.word
             THEN [st[k] EXCEPT !.repetitions = card.repetitions,
                                !.interval = card.interval,
                                !.easeFactor = card.easeFactor,
                                !.dueDate = card.dueDate]
             ELSE st[k]]

(* store.put: create or replace by the key path id *)
Put(st, card) == [k \in DOMAIN st \cup {card.id} |-> IF k = card.id THEN card ELSE st[k]]

RECURSIVE PutAll(_, _)
PutAll(st, cards) ==
    IF cards = {} THEN st
    ELSE LET c == CHOOSE x \in cards : TRUE
         IN  PutAll(Put(st, c), cards \ {c})

(* the cursor loop of onupgradeneeded over the legacy store *)
migrateLegacy(st, old, t) ==
    PutAll(st, { migrated(value, t) : value \in { v \in old : v.word # <<>> } })

EmptyStore == [k \in {} |-> NoCard]

Cards(st) == { st[k] : k \in DOMAIN st }

----------------------------------------------------------------------------
(* State *)

VARIABLES
    store,                \* object store leitner_cards_v2: id -> card
    legacy,               \* object store leitner_cards of the older versions
    dbOpened,             \* CacheDB.db has been set by init
    pending,              \* requests in flight, oldest first
    leitnerQueue,         \* AIChatApp.leitnerQueue
    currentCard,          \* AIChatApp.currentCard
    currentLeitnerScope,  \* AIChatApp.currentLeitnerScope
    leitnerDueCache,      \* AIChatApp.leitnerDueCache: scopeKey:word -> due state
    finishedHidden,       \* leitnerFinishedScreen carries the class hidden
    newCount,             \* the number shown in leitnerStatsNew
    reviewCount,          \* the number shown in leitnerStatsDue
    now,                  \* the wall clock, in ticks
    used,                 \* calls of rateCard made so far
    session,              \* the queue as last assigned, and what happened to it since
    dbVersion,            \* the schema version of the database on disk
    probe,                \* the last call of a pure function: arguments and result
    limit                 \* the bounds of this behaviour

vars == <<store, legacy, dbOpened, pending, leitnerQueue, currentCard,
          currentLeitnerScope, leitnerDueCache, finishedHidden,
          newCount, reviewCount, now, used, session, dbVersion, probe, limit>>

appVars == <<leitnerQueue, currentCard, currentLeitnerScope,
             finishedHidden, newCount, reviewCount, session>>

NoSession == [n |-> 0, key |-> NULL, rated |-> 0, finished |-> FALSE, live |-> FALSE]

EmptyCache == [k \in {} |-> "none"]

NoProbe == [fn |-> NULL]

InitWith(lim, old, times, probes) ==
    /\ store = EmptyStore
    /\ legacy \in old
    /\ dbOpened = FALSE
    /\ pending = <<>>
    /\ leitnerQueue = <<>>
    /\ currentCard = NoCard
    /\ currentLeitnerScope = GlobalScope
    /\ leitnerDueCache = EmptyCache
    /\ finishedHidden = TRUE
    /\ newCount = 0
    /\ reviewCount = 0
    /\ now \in times
    /\ used = 0
    /\ session = NoSession
    /\ dbVersion = LegacyVersion
    /\ probe \in probes
    /\ limit = lim

(* one card at a time, while the clock runs *)
Init == InitWith([inFlight |-> MaxInFlight, cards |-> MaxCards, rates |-> MaxRates,
                  time |-> MaxTime, scopes |-> {GlobalOnly, ChatA}],
                 SUBSET LegacyRecords, {0}, {NoProbe})

(* a deck of several cards of two scopes, reviewed within one tick *)
InitDeck == InitWith([inFlight |-> MaxInFlight, cards |-> DeckCards, rates |-> DeckRates,
                      time |-> DeckTime, scopes |-> {GlobalOnly, ChatA}],
                     {{}}, 0..DeckTime, {NoProbe})

(* cards of every kind of scope, reviewed within one tick *)
InitScopes == InitWith([inFlight |-> MaxInFlight, cards |-> ScopesCards, rates |-> ScopesRates,
                        time |-> 0, scopes |-> Scopes],
                       {{}}, {0}, {NoProbe})

----------------------------------------------------------------------------
(* Requests in flight.  A request on the store completes only when no      *)
(* older request conflicts with it: transactions with overlapping scope    *)
(* run in the order they were created unless both are read-only.           *)

Reads == {"addGet", "openGetAll", "preloadGetAll"}
Writes == {"addSet", "rateSet"}

Conflict(a, b) == a.kind \in Writes \/ b.kind \in Writes

(* requests answered in any order *)
CanCompleteUnordered(i) == i \in 1..Len(pending)

CanComplete(i) == \A j \in 1..(i - 1) : ~Conflict(pending[j], pending[i])

Remove(q, i) == SubSeq(q, 1, i - 1) \o SubSeq(q, i + 1, Len(q))

Room == Len(pending) < limit.inFlight

(* ids the store holds or is about to hold *)
PendingIds == { pending[i].id : i \in { j \in 1..Len(pending) : pending[j].kind \in {"addGet", "addSet"} } }

----------------------------------------------------------------------------
(* A page load: CacheDB.init, and the application starts from its          *)
(* constructor state.  When the database on disk has an older schema       *)
(* version, onupgradeneeded puts the legacy records into the scoped store. *)

init ==
    /\ pending = <<>>
    /\ store' = IF dbVersion < Version THEN migrateLegacy(store, legacy, now) ELSE store
    /\ dbVersion' = Version
    /\ dbOpened' = TRUE
    /\ leitnerQueue' = <<>>
    /\ currentCard' = NoCard
    /\ currentLeitnerScope' = GlobalScope
    /\ leitnerDueCache' = EmptyCache
    /\ finishedHidden' = TRUE
    /\ newCount' = 0
    /\ reviewCount' = 0
    /\ session' = NoSession
    /\ UNCHANGED <<legacy, pending, now, used, probe, limit>>

Tick ==
    /\ now < limit.time
    /\ now' = now + 1
    /\ UNCHANGED <<store, legacy, dbOpened, pending, leitnerDueCache, used, dbVersion, probe, limit>>
    /\ UNCHANGED appVars

----------------------------------------------------------------------------
(* showNextCard / showFinishedScreen, as a function of the queue *)

(* showNextCard that reports finished when it takes the last card *)
showNextCardEarly(queue, card, finHidden) ==
    IF Len(queue) <= 1
    THEN [queue |-> <<>>, card |-> IF queue = <<>> THEN card ELSE Head(queue),
          finishedHidden |-> FALSE, finished |-> TRUE]
    ELSE [queue |-> Tail(queue), card |-> Head(queue), finishedHidden |-> finHidden, finished |-> FALSE]

showNextCard(queue, card, finHidden) ==
    IF Len(queue) = 0
    THEN [queue |-> queue, card |-> card, finishedHidden |-> FALSE, finished |-> TRUE]
    ELSE [queue |-> Tail(queue), card |-> Head(queue), finishedHidden |-> finHidden, finished |-> FALSE]

----------------------------------------------------------------------------
(* addCurrentWordToLeitner *)

(* the call, up to the await of db.get *)
addCurrentWordToLeitner(word, scope) ==
    /\ dbOpened
    /\ Room
    /\ normalizeWord(word) # <<>>
    /\ \/ getLeitnerCardId(word, scope) \in DOMAIN store \cup PendingIds
       \/ Cardinality(DOMAIN store \cup PendingIds) < limit.cards
    /\ pending' = Append(pending, [kind |-> "addGet",
                                   raw |-> word,
                                   id |-> getLeitnerCardId(normalizeWord(word), scope),
                                   word |-> normalizeWord(word),
                                   scope |-> scope])
    /\ UNCHANGED <<store, legacy, dbOpened, leitnerDueCache, now, used, dbVersion, probe, limit>>
    /\ UNCHANGED appVars

(* db.get has answered: an existing card ends the call, otherwise the new  *)
(* card is built and handed to db.set                                      *)
addGetDone(i) ==
    LET op == pending[i]
        existingCard == IF op.id \in DOMAIN store THEN store[op.id] ELSE NoCard
    IN  /\ op.kind = "addGet"
        /\ pending' = IF existingCard # NoCard
                      THEN Remove(pending, i)
                      ELSE Append(Remove(pending, i),
                                  [kind |-> "addSet", id |-> op.id, word |-> op.word,
                                   scope |-> op.scope,
                                   card |-> newCard(op.word, op.scope, now)])
        /\ UNCHANGED <<store, legacy, dbOpened, leitnerDueCache, now, used, dbVersion, probe, limit>>
        /\ UNCHANGED appVars

(* refreshLeitnerDueCacheForWord: the entry without the word's key *)
refreshLeitnerDueCacheForWord(cache, word, scope) ==
    [k \in DOMAIN cache \ {getScopeKey(scope) \o ":" \o Join(normalizeWord(word))} |-> cache[k]]

(* db.set has stored the new card.  playTextToSpeech is then awaited; it   *)
(* catches the failures of its players and resolves.  The due cache is     *)
(* then refreshed: the entry dropped, a preload started.                   *)
addSetDone(i) ==
    LET op == pending[i]
    IN  /\ op.kind = "addSet"
        /\ store' = Put(store, op.card)
        /\ leitnerDueCache' = refreshLeitnerDueCacheForWord(leitnerDueCache, op.word, op.scope)
        /\ pending' = Append(Remove(pending, i), [kind |-> "preloadGetAll", scope |-> op.scope])
        /\ UNCHANGED <<legacy, dbOpened, now, used, dbVersion, probe, limit>>
        /\ UNCHANGED appVars

----------------------------------------------------------------------------
(* preloadLeitnerForScope *)

(* the cards of the global scope alone *)
getLeitnerCardsOfGlobal(st, scope, includeGlobal) ==
    { c \in Cards(st) : c.scopeKey = "global:all" }

getLeitnerCardsByScope(st, scope, includeGlobal) ==
    { c \in Cards(st) : \/ c.scopeKey = getScopeKey(scope)
                        \/ (includeGlobal /\ getScopeKey(scope) # "global:all"
                                          /\ c.scopeKey = "global:all") }

(* getWordLeitnerState: the cached state of a word, of the scope or else   *)
(* of the global scope                                                     *)
getWordLeitnerState(cache, word, scope) ==
    LET primaryKey == getScopeKey(scope) \o ":" \o Join(normalizeWord(word))
        globalKey == "global:all:" \o Join(normalizeWord(word))
    IN  IF normalizeWord(word) = <<>> THEN "none"
        ELSE IF primaryKey \in DOMAIN cache THEN cache[primaryKey]
        ELSE IF globalKey \in DOMAIN cache THEN cache[globalKey]
        ELSE "none"

(* selecting a chat or a document starts a preload for its scope *)
preloadLeitnerForScope(scope) ==
    /\ dbOpened
    /\ Room
    /\ pending' = Append(pending, [kind |-> "preloadGetAll", scope |-> scope])
    /\ UNCHANGED <<store, legacy, dbOpened, leitnerDueCache, now, used, dbVersion, probe, limit>>
    /\ UNCHANGED appVars

preloadDone(i) ==
    LET op == pending[i]
        cards == getLeitnerCardsByScope(store, op.scope, TRUE)
        keyOf(c) == c.scopeKey \o ":" \o Join(c.word)
    IN  /\ op.kind = "preloadGetAll"
        /\ leitnerDueCache' = [k \in { keyOf(c) : c \in cards } |->
                                 evaluateCardDueState(CHOOSE c \in cards : keyOf(c) = k, now)]
        /\ pending' = Remove(pending, i)
        /\ UNCHANGED <<store, legacy, dbOpened, now, used, dbVersion, probe, limit>>
        /\ UNCHANGED appVars

----------------------------------------------------------------------------
(* openLeitnerModal *)

(* the call, up to the await of db.getAll *)
openLeitnerModal(scope) ==
    /\ dbOpened
    /\ Room
    /\ finishedHidden' = TRUE
    /\ currentLeitnerScope' = scope
    /\ pending' = Append(pending, [kind |-> "openGetAll",
                                   scopeKey |-> getScopeKey(scope),
                                   includeGlobal |-> getScopeKey(scope) # "global:all"])
    /\ UNCHANGED <<store, legacy, dbOpened, leitnerDueCache, now, used, dbVersion, probe, limit,
                   leitnerQueue, currentCard, newCount, reviewCount, session>>

(* the filter without its test of the scope *)
cardsDueInAnyScope(st, scopeKey, includeGlobal, t) ==
    { card \in Cards(st) : card.dueDate # NoNum /\ Midnight(card.dueDate) <= Midnight(t) }

(* the filter without its fallback to the global scope *)
cardsDueInScopeOnly(st, scopeKey, includeGlobal, t) ==
    { card \in Cards(st) :
        /\ card.scopeKey = scopeKey
        /\ card.dueDate # NoNum
        /\ Midnight(card.dueDate) <= Midnight(t) }

(* the filter by the classifier: every card of the scope that is new, due *)
(* or overdue                                                              *)
cardsByDueState(st, scopeKey, includeGlobal, t) ==
    { card \in Cards(st) :
        /\ card.scopeKey # NULL
        /\ (card.scopeKey # scopeKey => (includeGlobal /\ card.scopeKey = "global:all"))
        /\ evaluateCardDueState(card, t) \in {"new", "due", "overdue"} }

(* the filter of openLeitnerModal *)
cardsToReview(st, scopeKey, includeGlobal, t) ==
    { card \in Cards(st) :
        /\ card.scopeKey # NULL
        /\ (card.scopeKey # scopeKey => (includeGlobal /\ card.scopeKey = "global:all"))
        /\ card.dueDate # NoNum
        /\ Midnight(card.dueDate) <= Midnight(t) }

(* sort(() => Math.random() - 0.5): the cards in some order *)
Shuffles(cards) ==
    { q \in [1..Cardinality(cards) -> cards] : \A i, j \in 1..Cardinality(cards) : q[i] = q[j] => i = j }

countNew(queue) == Cardinality({ i \in 1..Len(queue) : queue[i].repetitions = 0 })

countReview(queue) == Cardinality({ i \in 1..Len(queue) : queue[i].repetitions > 0 })

(* db.getAll has answered: filter, shuffle, statistics, first card *)
openDone(i) ==
    LET op == pending[i]
    IN  /\ op.kind = "openGetAll"
        /\ \E queue \in Shuffles(cardsToReview(store, op.scopeKey, op.includeGlobal, now)) :
             LET next == showNextCard(queue, currentCard, finishedHidden)
             IN  /\ leitnerQueue' = next.queue
                 /\ currentCard' = next.card
                 /\ finishedHidden' = next.finishedHidden
                 /\ newCount' = countNew(queue)
                 /\ reviewCount' = countReview(queue)
                 /\ session' = [n |-> Len(queue), key |-> op.scopeKey, rated |-> 0,
                                finished |-> next.finished, live |-> TRUE]
        /\ pending' = Remove(pending, i)
        /\ UNCHANGED <<store, legacy, dbOpened, leitnerDueCache, now, used, dbVersion, probe, limit,
                       currentLeitnerScope>>

(* startQuickReview: the review button of the word popup, offered for a    *)
(* card of the store that is due or overdue                                *)
startQuickReview(card) ==
    /\ dbOpened
    /\ evaluateCardDueState(card, now) \in {"due", "overdue"}
    /\ LET next == showNextCard(<<card>>, currentCard, TRUE)
       IN  /\ leitnerQueue' = next.queue
           /\ currentCard' = next.card
           /\ finishedHidden' = next.finishedHidden
           /\ session' = [n |-> 1, key |-> NULL, rated |-> 0,
                          finished |-> next.finished, live |-> TRUE]
    /\ currentLeitnerScope' = [type |-> card.scopeType, id |-> card.scopeId]
    /\ newCount' = 0
    /\ reviewCount' = 1
    /\ UNCHANGED <<store, legacy, dbOpened, pending, leitnerDueCache, now, used, dbVersion, probe, limit>>

closeLeitnerModal ==
    /\ currentCard' = NoCard
    /\ leitnerQueue' = <<>>
    /\ session' = [session EXCEPT !.live = FALSE]
    /\ UNCHANGED <<store, legacy, dbOpened, pending, leitnerDueCache, now, used, dbVersion, probe, limit,
                   currentLeitnerScope, finishedHidden, newCount, reviewCount>>

----------------------------------------------------------------------------
(* rateCard *)

(* a rateCard that shows the next card before db.set has answered *)
rateCardEager(rating) ==
    LET next == showNextCard(leitnerQueue, currentCard, finishedHidden)
    IN  /\ currentCard # NoCard
        /\ Room
        /\ used < limit.rates
        /\ updatedCard(currentCard, rating, now).interval <= MaxInterval
        /\ pending' = Append(pending, [kind |-> "rateSet",
                                       rating |-> rating,
                                       card |-> updatedCard(currentCard, rating, now)])
        /\ used' = used + 1
        /\ leitnerQueue' = next.queue
        /\ currentCard' = next.card
        /\ finishedHidden' = next.finishedHidden
        /\ session' = [session EXCEPT !.finished = @ \/ next.finished]
        /\ UNCHANGED <<store, legacy, dbOpened, leitnerDueCache, now, dbVersion, probe, limit,
                       currentLeitnerScope, newCount, reviewCount>>

(* the call, up to the await of db.set *)
rateCard(rating) ==
    /\ currentCard # NoCard
    /\ Room
    /\ used < limit.rates
    /\ updatedCard(currentCard, rating, now).interval <= MaxInterval
    /\ pending' = Append(pending, [kind |-> "rateSet",
                                   rating |-> rating,
                                   card |-> updatedCard(currentCard, rating, now)])
    /\ used' = used + 1
    /\ UNCHANGED <<store, legacy, dbOpened, leitnerDueCache, now, dbVersion, probe, limit>>
    /\ UNCHANGED appVars

(* db.set has stored the updated card: showNextCard *)
rateDone(i) ==
    LET op == pending[i]
        next == showNextCard(leitnerQueue, currentCard, finishedHidden)
    IN  /\ op.kind = "rateSet"
        /\ store' = Put(store, op.card)
        /\ leitnerQueue' = next.queue
        /\ currentCard' = next.card
        /\ finishedHidden' = next.finishedHidden
        /\ session' = [session EXCEPT !.rated = @ + 1,
                                      !.finished = @ \/ next.finished]
        /\ pending' = Remove(pending, i)
        /\ UNCHANGED <<legacy, dbOpened, leitnerDueCache, now, used, dbVersion, probe, limit,
                       currentLeitnerScope, newCount, reviewCount>>

----------------------------------------------------------------------------
(* A request completes, or fails: the promise rejects and the rest of the  *)
(* handler is not run (add and open catch the error, rateCard lets it      *)
(* escape; none of them touches the state afterwards).                     *)

Complete(i) ==
    /\ CanComplete(i)
    /\ \/ addGetDone(i)
       \/ addSetDone(i)
       \/ preloadDone(i)
       \/ openDone(i)
       \/ rateDone(i)

Reject(i) ==
    /\ CanComplete(i)
    /\ pending' = Remove(pending, i)
    /\ UNCHANGED <<store, legacy, dbOpened, leitnerDueCache, now, used, dbVersion, probe, limit>>
    /\ UNCHANGED appVars

Handlers ==
    \/ init
    \/ \E word \in RawWords, scope \in limit.scopes : addCurrentWordToLeitner(word, scope)
    \/ \E scope \in limit.scopes : openLeitnerModal(scope)
    \/ \E card \in Cards(store) : startQuickReview(card)
    \/ closeLeitnerModal
    \/ \E rating \in Ratings : rateCard(rating)
    \/ \E i \in 1..Len(pending) : Complete(i)
    \/ \E i \in 1..Len(pending) : Reject(i)

Next == Tick \/ Handlers

Spec == Init /\ [][Next]_vars

(* a request on the database is answered in the end *)
SpecDeck == InitDeck /\ [][Handlers]_vars /\ WF_vars(\E i \in 1..Len(pending) : Complete(i))

SpecScopes == InitScopes /\ [][Handlers]_vars

-----------------------------------------------------------------------------
(* The review methods called out of turn, with several requests in flight. *)
(* What the call gives back to its caller is kept in probe.                *)

InitCalls == InitWith([inFlight |-> CallsInFlight, cards |-> MaxCards, rates |-> MaxRates,
                       time |-> 0, scopes |-> {GlobalOnly}],
                      {{}}, {0}, {NoProbe})

(* rateCard while there is no current card: the first line returns *)
rateCardNoCard(rating) ==
    /\ currentCard = NoCard
    /\ probe' = [fn |-> "rateCard", rating |-> rating, outcome |-> "returned"]
    /\ UNCHANGED <<store, legacy, dbOpened, pending, leitnerDueCache, now, used, dbVersion, limit>>
    /\ UNCHANGED appVars

(* showNextCard on the empty queue of a session that has finished: the     *)
(* finished screen is shown once more                                      *)
showNextCardFinished ==
    LET next == showNextCard(leitnerQueue, currentCard, finishedHidden)
    IN  /\ session.live
        /\ session.finished
        /\ Len(leitnerQueue) = 0
        /\ leitnerQueue' = next.queue
        /\ currentCard' = next.card
        /\ finishedHidden' = next.finishedHidden
        /\ probe' = [fn |-> "showNextCard", rating |-> NoNum, outcome |-> "returned"]
        /\ UNCHANGED <<store, legacy, dbOpened, pending, leitnerDueCache, now, used, dbVersion, limit,
                       currentLeitnerScope, newCount, reviewCount, session>>

(* a deck of two cards with several requests in flight: handlers started *)
(* while the request of an earlier one is awaited                         *)
InitOverlap == InitWith([inFlight |-> CallsInFlight, cards |-> DeckCards, rates |-> DeckRates,
                         time |-> 0, scopes |-> {GlobalOnly, ChatA}],
                        {{}}, {0}, {NoProbe})

SpecOverlap == InitOverlap /\ [][Handlers]_vars

(* one card with three requests in flight: two adds and a rating overlap *)
InitRace == InitWith([inFlight |-> RaceInFlight, cards |-> MaxCards, rates |-> MaxRates,
                      time |-> 0, scopes |-> {GlobalOnly}],
                     {{}}, {0}, {NoProbe})

SpecRace == InitRace /\ [][Handlers]_vars

NextCalls ==
    \/ Handlers
    \/ \E rating \in Ratings : rateCardNoCard(rating)
    \/ showNextCardFinished

SpecCalls == InitCalls /\ [][NextCalls]_vars

----------------------------------------------------------------------------
(* The scheduler on its own: a card, as add makes it or as an import       *)
(* brings it in, is rated again and again.                                 *)

importedCard(repetitions, interval, easeFactor) ==
    [newCard(<<"a">>, ChatA, 0) EXCEPT !.repetitions = repetitions,
                                       !.interval = interval,
                                       !.easeFactor = easeFactor]

SM2Cards == { importedCard(r, i, e) : r \in {NoNum, 0, 1, 2}, i \in {NoNum, 0, 1, 6}, e \in {NoNum, MinEase, DefaultEase} }

InitSM2 ==
    InitWith([inFlight |-> 0, cards |-> 0, rates |-> MaxChain, time |-> DeckTime, scopes |-> {}],
             {{}}, 0..DeckTime,
             { [fn |-> "sm2", origin |-> c, card |-> c, rating |-> NoNum, out |-> c] : c \in SM2Cards })

(* rateCard up to the write: the scheduler's result put into the card *)
schedule(rating) ==
    /\ probe.fn = "sm2"
    /\ used < limit.rates
    /\ updatedCard(probe.out, rating, now).interval <= MaxInterval
    /\ probe' = [fn |-> "sm2", origin |-> probe.origin, card |-> probe.out, rating |-> rating,
                 out |-> updatedCard(probe.out, rating, now)]
    /\ used' = used + 1
    /\ UNCHANGED <<store, legacy, dbOpened, pending, leitnerDueCache, now, dbVersion, limit>>
    /\ UNCHANGED appVars

NextSM2 == \E rating \in Ratings : schedule(rating)

SpecSM2 == InitSM2 /\ [][NextSM2]_vars

----------------------------------------------------------------------------
(* The classifier on its own: any card at any time *)

ClassifyCards == { [importedCard(r, 0, DefaultEase) EXCEPT !.dueDate = d] :
                     r \in {NoNum, 0, 1, 2}, d \in {NoNum} \cup 0..MaxClock }

InitClassify ==
    InitWith([inFlight |-> 0, cards |-> 0, rates |-> 0, time |-> MaxClock, scopes |-> {}],
             {{}}, {0},
             { [fn |-> "classify", card |-> NoCard, now |-> 0, state |-> evaluateCardDueState(NoCard, 0)] })

classify(card) ==
    /\ probe.fn = "classify"
    /\ probe' = [fn |-> "classify", card |-> card, now |-> now,
                 state |-> evaluateCardDueState(card, now)]
    /\ UNCHANGED <<store, legacy, dbOpened, pending, leitnerDueCache, now, used, dbVersion, limit>>
    /\ UNCHANGED appVars

NextClassify == Tick \/ \E card \in ClassifyCards : classify(card)

SpecClassify == InitClassify /\ [][NextClassify]_vars

----------------------------------------------------------------------------
(* Properties *)

Range(q) == { q[i] : i \in 1..Len(q) }

(* the cards of the review in progress: the one shown and those waiting *)
InReview ==
    Range(leitnerQueue) \cup (IF session.live /\ session.rated < session.n THEN {currentCard} ELSE {})

IsDue(card, t) == evaluateCardDueState(card, t) \in {"due", "overdue"}

(* a card as add makes it, not rated since *)
Fresh(card) ==
    /\ card # NoCard
    /\ card.repetitions = 0 /\ card.interval = 0 /\ card.easeFactor = DefaultEase
    /\ card.lastReviewed = NoNum /\ card.status = "new"
    /\ ~card.migratedFromLegacy

(* C1: scope isolation.  A review opened for a scope other than the global *)
(* one holds no card of another non-global scope: a card added under       *)
(* chat:1 is in no review opened for chat:2 or for document:1.             *)
C1_ScopeIsolation ==
    \A c \in InReview :
        (session.key \notin {NULL, "global:all"} /\ c.scopeKey # "global:all")
            => c.scopeKey = session.key

(* a review opened for chat:1 holds its card while the store also holds a  *)
(* due card of another chat or of a document, which is left out            *)
C1_Witness ==
    /\ session.live /\ session.key = "chat:1" /\ session.rated = 0
    /\ currentCard # NoCard /\ currentCard.scopeKey = "chat:1"
    /\ \E c \in Cards(store) : /\ c.scopeKey \in {"chat:2", "document:1"}
                              /\ IsDue(c, now)
                              /\ c \notin InReview

(* C2: global inclusion.  When a review is opened, for whatever scope,     *)
(* every card of the global scope that is due at that time is in its       *)
(* queue.                                                                  *)
C2_GlobalInclusion ==
    [][\A i \in 1..Len(pending) :
          (CanComplete(i) /\ openDone(i)) =>
              \A c \in Cards(store) :
                  (c.scopeKey = "global:all" /\ IsDue(c, now))
                      => c \in Range(leitnerQueue') \cup {currentCard'}]_vars

(* a review opened for a document shows a card of the global scope *)
C2_Witness ==
    /\ session.live /\ session.key = "document:1" /\ session.rated = 0
    /\ currentCard # NoCard /\ currentCard.scopeKey = "global:all"
    /\ currentCard \in Cards(store)

(* two spellings of one word: equal but for case and spaces *)
Letters(word) == SelectSeq(word, LAMBDA ch : ~IsSpace(ch))

SameWord(v, w) ==
    /\ Len(Letters(v)) = Len(Letters(w))
    /\ \A i \in 1..Len(Letters(v)) : Lower(Letters(v)[i]) = Lower(Letters(w)[i])

Holds(st, word, scope) ==
    { c \in Cards(st) : c.scopeKey = getScopeKey(scope) /\ SameWord(c.word, word) }

(* C3: deduplication.  When add finds that the store already holds a card  *)
(* of the scope whose word is the given one but for case and surrounding   *)
(* whitespace, it changes nothing in the store and asks for no write; and  *)
(* the store never holds two cards of one scope and one word.              *)
C3_Deduplication ==
    [][/\ \A i \in 1..Len(pending) :
             (/\ CanComplete(i)
              /\ addGetDone(i)
              /\ Holds(store, pending[i].raw, pending[i].scope) # {})
                 => (store' = store /\ pending' = Remove(pending, i))
       /\ \A c \in Cards(store'), d \in Cards(store') :
             (c.scopeKey = d.scopeKey /\ SameWord(c.word, d.word)) => c = d]_vars

(* the word is added a second time, in another spelling, after its card    *)
(* has been rated                                                          *)
C3_Witness ==
    \E i \in 1..Len(pending) :
        /\ pending[i].kind = "addGet"
        /\ pending[i].raw = <<" ", "A", " ">>
        /\ \E c \in Holds(store, pending[i].raw, pending[i].scope) :
               c.word = <<"a">> /\ c.lastReviewed # NoNum

(* C4: a new card is due at once.  When a review is opened for the scope   *)
(* of the only card of the store, and that card is as add made it, the     *)
(* queue is that one card, shown first, with New: 1 and Review: 0.         *)
C4_NewCardDueImmediately ==
    [][\A i \in 1..Len(pending) :
          (/\ CanComplete(i)
           /\ openDone(i)
           /\ \E c \in Cards(store) : /\ Cards(store) = {c}
                                     /\ Fresh(c)
                                     /\ c.scopeKey = pending[i].scopeKey)
              => (/\ currentCard' \in Cards(store)
                  /\ leitnerQueue' = <<>>
                  /\ session'.n = 1
                  /\ ~session'.finished
                  /\ newCount' = 1
                  /\ reviewCount' = 0)]_vars

(* the review of the only card, added a tick earlier, has been opened *)
C4_Witness ==
    /\ session.live /\ session.key # NULL /\ session.n = 1 /\ session.rated = 0
    /\ Cards(store) = {currentCard}
    /\ Fresh(currentCard)
    /\ currentCard.scopeKey = session.key
    /\ currentCard.createdAt < now
    /\ leitnerQueue = <<>> /\ newCount = 1 /\ reviewCount = 0

RateInFlight == \E i \in 1..Len(pending) : pending[i].kind = "rateSet"

(* the session as it stands after its n cards were shown and rated *)
SessionAccount ==
    session.live =>
        /\ session.finished <=> session.rated >= session.n
        /\ Len(leitnerQueue) = Max(0, session.n - 1 - session.rated)
        /\ session.finished => leitnerQueue = <<>>

(* the write of the rating of the last card of the session is in flight *)
LastWriteInFlight ==
    session.live /\ session.n > 0 /\ session.rated = session.n - 1 /\ RateInFlight

Scheduled(repetitions, interval, easeFactor, rating) ==
    /\ probe.fn = "sm2"
    /\ probe.rating = rating
    /\ probe.card.repetitions = repetitions
    /\ probe.card.interval = interval
    /\ probe.card.easeFactor = easeFactor

(* C7: the table of the scheduler.  A card with repetitions 0, interval 0  *)
(* and ease 2.5 rated Easy (quality 5) gets repetitions 2, interval 4 and  *)
(* status review; rated Good (quality 3) it gets repetitions 1 and         *)
(* interval 1; a card with repetitions 2, interval 6 and ease 2.5 rated    *)
(* Again (quality 0) gets repetitions 0, interval 1 and ease 2.3.          *)
C7_SM2Table ==
    /\ (Scheduled(0, 0, 250, 4) /\ qualityMap(4) = 5)
          => (probe.out.repetitions = 2 /\ probe.out.interval = 4 /\ probe.out.status = "review")
    /\ (Scheduled(0, 0, 250, 3) /\ qualityMap(3) = 3)
          => (probe.out.repetitions = 1 /\ probe.out.interval = 1)
    /\ (Scheduled(2, 6, 250, 1) /\ qualityMap(1) = 0)
          => (probe.out.repetitions = 0 /\ probe.out.interval = 1 /\ probe.out.easeFactor = 230)

(* the first row of the table has been computed *)
C7_Witness ==
    /\ Scheduled(0, 0, 250, 4)
    /\ probe.out.repetitions = 2 /\ probe.out.interval = 4 /\ probe.out.status = "review"

(* C8: the floor of the ease factor.  Whatever ratings a card has had, the *)
(* ease factor the scheduler returns, which rateCard stores, is at least   *)
(* 1.3.                                                                    *)
C8_EaseFloor ==
    (probe.fn = "sm2" /\ probe.rating # NoNum) => probe.out.easeFactor >= 130

(* a card made by add has come down to the floor, and is failed once more *)
C8_Witness ==
    /\ probe.fn = "sm2"
    /\ probe.origin = newCard(<<"a">>, ChatA, 0)
    /\ probe.rating = 1
    /\ probe.card.easeFactor = 130
    /\ probe.out.easeFactor = 130

(* C9: the classifier is total.  For a card with any count of repetitions  *)
(* and any due date, a missing one too, and at any time, it answers one of *)
(* new, scheduled, due and overdue: due or overdue when the due date is    *)
(* missing or not after the time, new or scheduled otherwise.              *)
C9_ClassifyTotal ==
    (probe.fn = "classify" /\ probe.card # NoCard) =>
        /\ probe.state \in {"new", "scheduled", "due", "overdue"}
        /\ probe.state \in {"due", "overdue"}
              <=> (probe.card.dueDate = NoNum \/ probe.card.dueDate <= probe.now)
        /\ probe.state = "new" => probe.card.repetitions = 0
        /\ probe.state = "scheduled" => probe.card.repetitions # 0

(* a card without a due date has been classified, after some time *)
C9_Witness ==
    /\ probe.fn = "classify" /\ probe.card # NoCard
    /\ probe.card.dueDate = NoNum
    /\ probe.now > 0
    /\ probe.state = "due"

MigratedCards(st) == { c \in Cards(st) : c.migratedFromLegacy }

(* C10: the migration is idempotent.  After the upgrade has run, running   *)
(* the migration again over the same legacy records, at whatever time,     *)
(* leaves the scoped store as it is; the store holds one scoped card for   *)
(* each legacy record, and the legacy records are as they were.            *)
C10_MigrationIdempotent ==
    [][(init /\ dbVersion < Version) =>
          /\ legacy' = legacy
          /\ \A t \in 0..limit.time : migrateLegacy(store', legacy', t) = store'
          /\ Cardinality(MigratedCards(store')) = Cardinality(legacy)
          /\ \A value \in legacy :
                Cardinality({ c \in MigratedCards(store') :
                                c.word = value.word /\ c.chatId = value.chatId }) = 1]_vars

(* the upgrade has migrated two legacy records, some time ago *)
C10_Witness ==
    /\ dbVersion = Version
    /\ Cardinality(legacy) = 2
    /\ Cardinality(MigratedCards(store)) = 2
    /\ legacy = LegacyRecords
    /\ now > 0

InScope(card, scopeKey) ==
    card.scopeKey = scopeKey \/ (scopeKey # "global:all" /\ card.scopeKey = "global:all")

(* the queue a review has just been given, the card shown included *)
Assigned(queue, card, n) == IF n > 0 THEN Range(queue) \cup {card} ELSE {}

C12_SessionStatistics ==
    (session.live /\ session.rated = 0) =>
        /\ newCount = Cardinality({ c \in Assigned(leitnerQueue, currentCard, session.n) :
                                      c.repetitions = 0 })
        /\ newCount + reviewCount = session.n

(* the key of a card in the due-state cache *)
CacheKey(card) == card.scopeKey \o ":" \o Join(card.word)

(* C13: cache invalidation on rate.  When the write of a rating has        *)
(* succeeded, the due-state cache has no entry for the card, or the entry  *)
(* is the due state of the card as it is now stored.                       *)
C13_CacheInvalidatedOnRate ==
    [][\A i \in 1..Len(pending) :
          (CanComplete(i) /\ rateDone(i)) =>
              (CacheKey(pending[i].card) \in DOMAIN leitnerDueCache'
                 => leitnerDueCache'[CacheKey(pending[i].card)]
                      = evaluateCardDueState(store'[pending[i].card.id], now))]_vars

(* C14: cache invalidation on add.  When add has stored its new card the   *)
(* cache has no entry for the word in that scope and a preload of the      *)
(* scope is under way; when a preload of a scope has been answered, the    *)
(* lookup of the word of each card of that scope gives the due state of    *)
(* the card, and not none.                                                 *)
C14_CacheRefreshedOnAdd ==
    [][\A i \in 1..Len(pending) :
          /\ (CanComplete(i) /\ addSetDone(i)) =>
                /\ CacheKey(pending[i].card) \notin DOMAIN leitnerDueCache'
                /\ \E j \in 1..Len(pending') :
                      /\ pending'[j].kind = "preloadGetAll"
                      /\ getScopeKey(pending'[j].scope) = pending[i].card.scopeKey
          /\ (CanComplete(i) /\ preloadDone(i)) =>
                \A c \in Cards(store) :
                    c.scopeKey = getScopeKey(pending[i].scope) =>
                        /\ getWordLeitnerState(leitnerDueCache', c.word, pending[i].scope)
                              = evaluateCardDueState(c, now)
                        /\ getWordLeitnerState(leitnerDueCache', c.word, pending[i].scope) # "none"]_vars

(* the refresh that add started has settled: the new card is cached as due *)
C14_Witness ==
    \E c \in Cards(store) :
        /\ Fresh(c)
        /\ pending = <<>>
        /\ CacheKey(c) \in DOMAIN leitnerDueCache
        /\ getWordLeitnerState(leitnerDueCache, c.word, [type |-> c.scopeType, id |-> c.scopeId]) = "due"

(* C15: no partial mutation on storage failure.  The call of rate leaves   *)
(* the current card, the queue, the session and the store as they are      *)
(* while its write is awaited, and when the write fails they stay as they  *)
(* are: the rated card is still the current card, the queue and the        *)
(* stored card are unchanged.                                              *)
C15_NoPartialMutation ==
    [][/\ \A rating \in Ratings :
             rateCard(rating) => UNCHANGED <<store, leitnerQueue, currentCard, session, finishedHidden>>
       /\ \A i \in 1..Len(pending) :
             (pending[i].kind = "rateSet" /\ Reject(i)) =>
                 UNCHANGED <<store, leitnerQueue, currentCard, session, finishedHidden>>]_vars

(* a rating whose write failed: the card is still the current card of the  *)
(* session, nothing was ever stored for it, and nothing is in flight       *)
C15_Witness ==
    /\ pending = <<>>
    /\ used > 0
    /\ session.live
    /\ session.rated = 0
    /\ currentCard # NoCard
    /\ currentCard.id \in DOMAIN store
    /\ store[currentCard.id] = currentCard
    /\ \A c \in Cards(store) : c.lastReviewed = NoNum

(* C16: invalid-state reporting.  A call of rate while there is no current *)
(* card, and a call for the next card of a session that has finished,      *)
(* gives its caller an invalid-state error and leaves the store and the    *)
(* session as they are.                                                    *)
C16_InvalidStateReported ==
    [][/\ \A rating \in Ratings :
             rateCardNoCard(rating) =>
                 /\ probe'.outcome = "invalid-state"
                 /\ UNCHANGED <<store, leitnerQueue, currentCard, session>>
       /\ showNextCardFinished =>
             /\ probe'.outcome = "invalid-state"
             /\ UNCHANGED <<store, leitnerQueue, currentCard, session>>]_vars

(* C17: per-card serialization of rate.  No two writes of rate for the     *)
(* same card id are in flight at once: a rating given while the write of   *)
(* an earlier rating of the current card is awaited starts no second       *)
(* write of that card.                                                     *)
C17_PerCardSerialization ==
    \A i, j \in 1..Len(pending) :
        (i # j /\ pending[i].kind = "rateSet" /\ pending[j].kind = "rateSet") =>
            pending[i].card.id # pending[j].card.id

(* C18: same-session requeue.  When the write of a rating that gave the    *)
(* card interval 0 is answered, the card is still to come in the session:  *)
(* it is in the queue again, or it is the card shown and the session has   *)
(* not finished.                                                           *)
C18_SameSessionRequeue ==
    [][\A i \in 1..Len(pending) :
          (CanComplete(i) /\ rateDone(i) /\ session.live /\ pending[i].card.interval = 0) =>
              \/ \E k \in 1..Len(leitnerQueue') : leitnerQueue'[k].id = pending[i].card.id
              \/ (currentCard'.id = pending[i].card.id /\ ~session'.finished)]_vars

(* C19: card identity.  In every store that add, rate and the migration of *)
(* legacy records lead to, no two cards have the same scope type, scope id *)
(* and word; the id of each card is its scope key, a colon and its word,   *)
(* the scope key being the scope type, a colon and the scope id, and the   *)
(* word trimmed and in lower case; and no step changes the id, the scope   *)
(* or the word of a card that is stored.                                   *)
Trimmed(word) ==
    /\ word # <<>>
    /\ ~IsSpace(word[1])
    /\ ~IsSpace(word[Len(word)])
    /\ \A k \in 1..Len(word) : Lower(word[k]) = word[k]

Identified(st) ==
    \A id \in DOMAIN st :
        /\ st[id].id = id
        /\ st[id].scopeKey = st[id].scopeType \o ":" \o st[id].scopeId
        /\ id = st[id].scopeKey \o ":" \o Join(st[id].word)
        /\ Trimmed(st[id].word)
        /\ \A other \in DOMAIN st :
              ( /\ st[other].scopeType = st[id].scopeType
                /\ st[other].scopeId = st[id].scopeId
                /\ st[other].word = st[id].word ) => other = id

C19_CardIdentity ==
    [][/\ Identified(store')
       /\ \A id \in DOMAIN store \cap DOMAIN store' :
             /\ store'[id].id = store[id].id
             /\ store'[id].scopeType = store[id].scopeType
             /\ store'[id].scopeId = store[id].scopeId
             /\ store'[id].word = store[id].word]_vars

(* two migrated cards are stored under their scoped ids, one of them      *)
(* rated since                                                             *)
C19_Witness ==
    /\ Cardinality(DOMAIN store) = 2
    /\ \E c \in Cards(store) : c.migratedFromLegacy /\ c.lastReviewed # NoNum /\ c.repetitions > 0
    /\ \A c \in Cards(store) : c.id = c.scopeType \o ":" \o c.scopeId \o ":" \o Join(c.word)

(* C20: the failure rule.  For every card and every rating of quality      *)
(* below 3 (Again and Hard), the scheduler returns repetitions 0, interval *)
(* 0 when the repetitions of the card were 0 and interval 1 otherwise, and *)
(* the ease factor lowered by 0.2 but not below 1.3.  A field the card     *)
(* lacks is read as 0 repetitions and as the default ease factor.          *)
Prior(v, d) == IF v = NoNum THEN d ELSE v

C21_HardOnGraduated ==
    (probe.fn = "sm2" /\ probe.rating = 2 /\ qualityMap(2) = 2 /\ probe.card.repetitions >= 1) =>
        IF probe.card.repetitions = 1
        THEN /\ probe.out.interval = Max(2, RoundDiv(Prior(probe.card.interval, 0) * 12, 10))
             /\ probe.out.repetitions = 2
        ELSE /\ probe.out.interval = Max(RoundDiv(Prior(probe.card.interval, 0) * 12, 10),
                                         Prior(probe.card.interval, 0) + 1)
             /\ probe.out.repetitions = probe.card.repetitions + 1

(* C22: the success rules.  For Good (quality 3) and Easy (quality 5) the  *)
(* ease factor becomes max(1.3, ease + 0.1 - (5-q) * (0.08 + (5-q) * 0.02)) *)
(* that is ease - 0.14 for Good and ease + 0.1 for Easy.  With repetitions  *)
(* 0 Good gives interval 1 and repetitions 1, Easy interval 4 and          *)
(* repetitions 2; with repetitions 1 Good gives interval 6 and Easy        *)
(* round(interval * ease' * 1.3), repetitions 2; with repetitions 2 or     *)
(* more Good gives round(interval * ease') and Easy                        *)
(* round(interval * ease' * 1.3), and one repetition more.                 *)
SuccessEase(easeFactor, quality) ==
    LET raised == Prior(easeFactor, 250) + (IF quality = 5 THEN 10 ELSE 0 - 14)
    IN  IF raised < 130 THEN 130 ELSE raised

C22_SuccessRules ==
    (probe.fn = "sm2" /\ probe.rating \in {3, 4}) =>
        LET q == qualityMap(probe.rating)
            reps == Prior(probe.card.repetitions, 0)
            int == Prior(probe.card.interval, 0)
            ease == SuccessEase(probe.card.easeFactor, q)
        IN  /\ q = IF probe.rating = 3 THEN 3 ELSE 5
            /\ probe.out.easeFactor = ease
            /\ reps = 0 => /\ probe.out.interval = IF q = 3 THEN 1 ELSE 4
                           /\ probe.out.repetitions = IF q = 3 THEN 1 ELSE 2
            /\ reps = 1 => /\ probe.out.interval = IF q = 3 THEN 6 ELSE RoundDiv(int * ease * 13, 1000)
                           /\ probe.out.repetitions = 2
            /\ reps >= 2 => /\ probe.out.interval = IF q = 3 THEN RoundDiv(int * ease, 100)
                                                     ELSE RoundDiv(int * ease * 13, 1000)
                            /\ probe.out.repetitions = reps + 1

(* a card with two repetitions and an interval of one day is rated Easy:   *)
(* the bonus makes its interval three days                                 *)
C22_Witness ==
    /\ probe.fn = "sm2"
    /\ probe.rating = 4
    /\ probe.card.repetitions = 2
    /\ probe.card.interval = 1
    /\ probe.card.easeFactor = 250
    /\ probe.out.easeFactor = 260
    /\ probe.out.interval = 3
    /\ probe.out.repetitions = 3

(* C23: status is derived data.  In every store that add and rate lead to, *)
(* a card that was never rated has status new and repetitions 0, and a     *)
(* card that was rated has status learning when its repetitions are below  *)
(* 2 and review otherwise: the status is a function of the repetitions and *)
(* of whether the card was ever rated.                                     *)
C23_StatusDerived ==
    \A c \in Cards(store) :
        IF c.lastReviewed = NoNum
        THEN c.status = "new" /\ c.repetitions = 0
        ELSE c.status = IF c.repetitions < 2 THEN "learning" ELSE "review"

(* C23 as stated: any two stored cards with the same repetitions have the  *)
(* same status, and a rated card is learning below 2 repetitions and       *)
(* review otherwise.                                                       *)
C23_AsStated ==
    /\ \A c, d \in Cards(store) : c.repetitions = d.repetitions => c.status = d.status
    /\ \A c \in Cards(store) :
          c.lastReviewed # NoNum => c.status = IF c.repetitions < 2 THEN "learning" ELSE "review"

(* two cards with no repetitions: one as add made it, one rated Again *)
C23_Witness ==
    \E c, d \in Cards(store) :
        /\ c.repetitions = 0 /\ c.lastReviewed = NoNum /\ c.status = "new"
        /\ d.repetitions = 0 /\ d.lastReviewed # NoNum /\ d.status = "learning"

(* C24: the classification rule.  The classifier tests due against not    *)
(* due by the day: a card whose due date falls on the day of now, at any   *)
(* time of that day, or on an earlier day is due; a due card is overdue    *)
(* when now is more than a day past its due date; a card not due is new    *)
(* with repetitions 0 and scheduled otherwise.  So the classifier and the  *)
(* filter of the review queue take the same cards for due, for every due   *)
(* date and every now.                                                     *)
C24_ClassifyByDay ==
    (probe.fn = "classify" /\ probe.card # NoCard /\ probe.card.dueDate # NoNum) =>
        LET dueByDay == Midnight(probe.card.dueDate) <= Midnight(probe.now)
            queued == probe.card \in cardsToReview(Put(EmptyStore, probe.card),
                                                  probe.card.scopeKey, TRUE, probe.now)
        IN  /\ probe.state \in {"due", "overdue"} <=> dueByDay
            /\ probe.state = "overdue" <=> (dueByDay /\ probe.now - probe.card.dueDate > DayLen)
            /\ probe.state = "new" <=> (~dueByDay /\ probe.card.repetitions = 0)
            /\ probe.state = "scheduled" <=> (~dueByDay /\ probe.card.repetitions # 0)
            /\ probe.state \in {"due", "overdue"} <=> queued

(* C25: the queue has one card per word, the global card as a fallback.    *)
(* A review opened for a scope other than the global one takes at most one *)
(* card per word; a card of the global scope is taken only when the scope  *)
(* has no due card of that word.                                           *)
C25_QueueDeduplicated ==
    [][\A i \in 1..Len(pending) :
          (CanComplete(i) /\ openDone(i) /\ pending[i].scopeKey # "global:all") =>
              LET queued == Assigned(leitnerQueue', currentCard', session'.n)
              IN  /\ \A c, d \in queued : c.word = d.word => c = d
                  /\ \A c \in queued :
                        c.scopeKey = "global:all" =>
                            ~\E d \in Cards(store) :
                                /\ d.scopeKey = pending[i].scopeKey
                                /\ d.word = c.word
                                /\ IsDue(d, now)]_vars

(* C26: the frame of rate.  The write of a rating changes the one record   *)
(* whose id is that of the rated card, and leaves its id, word, scope      *)
(* type, scope id, scope key and creation time as they were; the number of *)
(* stored cards stays the same and every other card is unchanged, a card   *)
(* of the same word in another scope too.                                  *)
C26_RateFrame ==
    [][\A i \in 1..Len(pending) :
          (CanComplete(i) /\ rateDone(i)) =>
              LET id == pending[i].card.id
              IN  /\ DOMAIN store' = DOMAIN store
                  /\ id \in DOMAIN store
                  /\ \A k \in DOMAIN store : k # id => store'[k] = store[k]
                  /\ store'[id].id = store[id].id
                  /\ store'[id].word = store[id].word
                  /\ store'[id].scopeType = store[id].scopeType
                  /\ store'[id].scopeId = store[id].scopeId
                  /\ store'[id].scopeKey = store[id].scopeKey
                  /\ store'[id].createdAt = store[id].createdAt]_vars

(* the word is stored in the global scope and in a chat; the card of the   *)
(* chat has been rated, the global one is as add made it                   *)
C26_Witness ==
    \E c, d \in Cards(store) :
        /\ c.word = d.word
        /\ c.scopeKey = "chat:1" /\ d.scopeKey = "global:all"
        /\ c.lastReviewed # NoNum /\ c.repetitions > 0
        /\ Fresh(d)

(* C27: no card is skipped unrated.  When a rate write is answered while   *)
(* the card shown is another card than the one rated, the session stays    *)
(* at the card shown: it is neither replaced by the next card of the queue *)
(* nor left behind by the finished screen.  So a card leaves the session   *)
(* only by a rating of its own, and two overlapping ratings of one card do *)
(* not move the queue on twice.                                            *)
C27_NoCardSkipped ==
    [][\A i \in 1..Len(pending) :
          ( /\ CanComplete(i) /\ rateDone(i)
            /\ session.live /\ ~session.finished
            /\ currentCard # NoCard
            /\ currentCard.id # pending[i].card.id ) =>
              /\ currentCard' = currentCard
              /\ leitnerQueue' = leitnerQueue
              /\ ~session'.finished]_vars

(* C28: the queue belongs to the current review scope.  Whenever the queue *)
(* is not empty, each queued card has the scope key of currentLeitnerScope *)
(* or the global one, however the calls of openLeitnerModal and            *)
(* startQuickReview overlap and in whatever order their reads are          *)
(* answered.                                                               *)
C28_QueueOfCurrentScope ==
    \A k \in 1..Len(leitnerQueue) :
        leitnerQueue[k].scopeKey \in {getScopeKey(currentLeitnerScope), "global:all"}

(* C29: the check and the write of add are atomic for the card id.  When   *)
(* the write of an add is answered, the store holds no rated card of that  *)
(* id: a late write of an add that had read no card never resets a rated   *)
(* card.  And when the write of a rating is answered, the store holds what *)
(* the rating produced and no write of an add for that id is still to      *)
(* come, so that the card keeps the repetitions, interval, ease factor and *)
(* due date of the rating once everything has been answered.               *)
C29_AddAtomic ==
    [][\A i \in 1..Len(pending) :
          /\ (CanComplete(i) /\ addSetDone(i) /\ pending[i].id \in DOMAIN store) =>
                store[pending[i].id].lastReviewed = NoNum
          /\ (CanComplete(i) /\ rateDone(i)) =>
                /\ store'[pending[i].card.id].repetitions = pending[i].card.repetitions
                /\ store'[pending[i].card.id].interval = pending[i].card.interval
                /\ store'[pending[i].card.id].easeFactor = pending[i].card.easeFactor
                /\ store'[pending[i].card.id].dueDate = pending[i].card.dueDate
                /\ ~\E j \in 1..Len(pending') :
                      pending'[j].kind = "addSet" /\ pending'[j].id = pending[i].card.id]_vars

(* two adds of the word have both read no card: the write of the first is  *)
(* stored and the card is being rated while the write of the second is     *)
(* still in flight                                                         *)
C29_Witness ==
    \E i, j \in 1..Len(pending) :
        /\ pending[i].kind = "addSet"
        /\ pending[j].kind = "rateSet"
        /\ pending[i].id = pending[j].card.id
        /\ pending[i].id \in DOMAIN store

(* C30: the migration preserves the review progress.  Once the legacy      *)
(* records have been migrated, a schema upgrade that runs the migration    *)
(* again over the legacy store, which is still there, leaves each scoped   *)
(* card as it is: the repetitions, interval, ease factor, due date and     *)
(* status that rate has written since are still there after the run.       *)
C30_MigrationKeepsProgress ==
    dbVersion = Version =>
        \A c \in MigratedCards(store) :
            LET again == migrateLegacy(store, legacy, now)[c.id]
            IN  /\ again.repetitions = c.repetitions
                /\ again.interval = c.interval
                /\ again.easeFactor = c.easeFactor
                /\ again.dueDate = c.dueDate
                /\ again.status = c.status

====
